---- MODULE Spec2Model ----
(***************************************************************************)
(* Model of pkg/formatter/formatter.go: Formatter.Format renders one       *)
(* logrus entry into one text line.  Strings are sequences of byte values. *)
(* Every call of Format is a process p with its own local variables; the   *)
(* bytes.Buffer values live in a heap indexed by buffer identity.          *)
(***************************************************************************)
EXTENDS Integers, Sequences, FiniteSets, TLC

VARIABLES
    f,               \* the Formatter (options), shared by all calls
    entry,           \* entry[p]: the *logrus.Entry passed to call p
    pc,              \* pc[p]: position of call p inside Format
    heap,            \* heap[id]: contents of the bytes.Buffer with identity id
    b,               \* b[p]: the local b, a pointer to a buffer
    levelColor,      \* levelColor[p]: local of Format
    timestampFormat, \* timestampFormat[p]: local of Format
    level,           \* level[p]: local of Format (uppercased level name)
    length,          \* length[p]: local of writeOrderedFields
    foundFieldsMap,  \* foundFieldsMap[p]: local of writeOrderedFields (keys mapped to true)
    fields,          \* fields[p]: sorted slice still to be written (fields / notFoundFields)
    idx,             \* idx[p]: position of the range loop over f.FieldsOrder
    ret              \* ret[p]: what the call returned, [bytes, err]

vars == <<f, entry, pc, heap, b, levelColor, timestampFormat, level, length,
          foundFieldsMap, fields, idx, ret>>

\* ------------------------------------------------------------------ bounds

\* longest message, in bytes
MaxMsgLen == 3
\* longest FieldsOrder list
MaxOrderLen == 2

\* ------------------------------------------------------------------- bytes

ESC == 27
LF == 10
SP == 32

Nil == "nil"
Procs == {1, 2}

\* ------------------------------------------------------- library functions

\* unicode.IsSpace on the bytes below 0x80: \t \n \v \f \r and space
IsSpace(c) == c \in {9, 10, 11, 12, 13, 32}

RECURSIVE TrimLeft(_)
TrimLeft(s) ==
    IF s = <<>> THEN <<>>
    ELSE IF IsSpace(Head(s)) THEN TrimLeft(Tail(s)) ELSE s

RECURSIVE TrimRight(_)
TrimRight(s) ==
    IF s = <<>> THEN <<>>
    ELSE IF IsSpace(s[Len(s)]) THEN TrimRight(SubSeq(s, 1, Len(s) - 1)) ELSE s

\* strings.TrimSpace
TrimSpace(s) == TrimRight(TrimLeft(s))

\* strings.ToUpper on ASCII
UpperByte(c) == IF c >= 97 /\ c <= 122 THEN c - 32 ELSE c
ToUpper(s) == [i \in 1..Len(s) |-> UpperByte(s[i])]

\* the %d verb for an int
RECURSIVE Digits(_)
Digits(n) == IF n < 10 THEN <<48 + n>> ELSE Digits(n \div 10) \o <<48 + (n % 10)>>
Itoa(n) == IF n < 0 THEN <<45>> \o Digits(0 - n) ELSE Digits(n)

\* the %v verb for a field value: an int prints as %d, a string as itself
FormatV(v) == IF v.kind = "int" THEN Itoa(v.i) ELSE v.s

\* two-digit zero-padded number of time.Format ("15", "04", "05")
Pad2(n) == <<48 + (n \div 10), 48 + (n % 10)>>

\* time.Time.Format for layouts made of "15", "04", "05" and literal bytes
RECURSIVE TimeFormat(_, _)
TimeFormat(t, layout) ==
    IF layout = <<>> THEN <<>>
    ELSE IF Len(layout) >= 2 /\ SubSeq(layout, 1, 2) = <<49, 53>>
        THEN Pad2(t.hour) \o TimeFormat(t, SubSeq(layout, 3, Len(layout)))
    ELSE IF Len(layout) >= 2 /\ SubSeq(layout, 1, 2) = <<48, 52>>
        THEN Pad2(t.min) \o TimeFormat(t, SubSeq(layout, 3, Len(layout)))
    ELSE IF Len(layout) >= 2 /\ SubSeq(layout, 1, 2) = <<48, 53>>
        THEN Pad2(t.sec) \o TimeFormat(t, SubSeq(layout, 3, Len(layout)))
    ELSE <<Head(layout)>> \o TimeFormat(t, Tail(layout))

\* time.TimeOnly = "15:04:05"
TimeOnly == <<49, 53, 58, 48, 52, 58, 48, 53>>

\* logrus.Level.String: panic=0 fatal=1 error=2 warning=3 info=4 debug=5
\* trace=6, any other value "unknown"
LevelString(lv) ==
    CASE lv = 0 -> <<112, 97, 110, 105, 99>>
      [] lv = 1 -> <<102, 97, 116, 97, 108>>
      [] lv = 2 -> <<101, 114, 114, 111, 114>>
      [] lv = 3 -> <<119, 97, 114, 110, 105, 110, 103>>
      [] lv = 4 -> <<105, 110, 102, 111>>
      [] lv = 5 -> <<100, 101, 98, 117, 103>>
      [] lv = 6 -> <<116, 114, 97, 99, 101>>
      [] OTHER -> <<117, 110, 107, 110, 111, 119, 110>>

\* byte-wise lexicographic order of Go strings (the order of sort.Strings)
RECURSIVE StrLess(_, _)
StrLess(x, y) ==
    IF y = <<>> THEN FALSE
    ELSE IF x = <<>> THEN TRUE
    ELSE IF Head(x) < Head(y) THEN TRUE
    ELSE IF Head(x) > Head(y) THEN FALSE
    ELSE StrLess(Tail(x), Tail(y))

RECURSIVE Insert(_, _)
Insert(x, s) ==
    IF s = <<>> THEN <<x>>
    ELSE IF StrLess(Head(s), x) THEN <<Head(s)>> \o Insert(x, Tail(s))
    ELSE <<x>> \o s

RECURSIVE InsertionSort(_)
InsertionSort(s) == IF s = <<>> THEN <<>> ELSE Insert(Head(s), InsertionSort(Tail(s)))

SortUnsorted(s) == s
\* sort.Strings
SortStrings(s) == InsertionSort(s)

\* the orders in which `for field := range m` can yield the keys in S
RangeOrders(S) ==
    {o \in [1..Cardinality(S) -> S] : \A i, j \in 1..Cardinality(S) : i # j => o[i] # o[j]}

\* a nil []string, and a non-nil one holding names
NilSlice == [isNil |-> TRUE, names |-> <<>>]
Slice(names) == [isNil |-> FALSE, names |-> names]

\* a nil *runtime.Frame, and a frame
NilFrame == [isNil |-> TRUE, File |-> <<>>, Line |-> 0, Function |-> <<>>]
Frame(file, line, function) ==
    [isNil |-> FALSE, File |-> file, Line |-> line, Function |-> function]

\* entry.HasCaller: entry.Logger != nil && entry.Logger.ReportCaller && entry.Caller != nil
HasCaller(e) == e.ReportCaller /\ ~e.Caller.isNil

\* ------------------------------------------------------------ formatter.go

colorNone == 0
colorRed == 31
colorYellow == 33
colorCyan == 36
colorGray == 37

ColorAlwaysCyan(lv) == colorCyan
getColorByLevel(lv) ==
    CASE lv \in {5, 6} -> colorGray
      [] lv = 3 -> colorYellow
      [] lv \in {2, 1, 0} -> colorRed
      [] OTHER -> colorCyan

\* fmt.Fprintf(b, "\x1b[%dm", c)
ColorSeq(c) == <<ESC, 91>> \o Itoa(c) \o <<109>>

\* the default applied to f.TimestampFormat
ResolveTimestampFormat(fmt) == IF fmt = <<>> THEN TimeOnly ELSE fmt

\* "[" time "]"
TimeBytes(e, fmt) == <<91>> \o TimeFormat(e.Time, fmt) \o <<93>>

LevelTagWhole(lv) == lv
\* level[:4]
LevelTag(lv) == SubSeq(lv, 1, 4)

LevelInBounds(lv) == Len(lv) >= 4

\* " [" level[:4] "]" " "
LevelBytes(lv) == <<SP, 91>> \o LevelTag(lv) \o <<93>> \o <<SP>>

\* writeField
FieldBytes(fm, e, field) ==
    (IF fm.HideKeys
        THEN <<91>> \o FormatV(e.Data[field]) \o <<93>>
        ELSE <<91>> \o field \o <<58>> \o FormatV(e.Data[field]) \o <<93>>)
    \o <<SP>>

ColorAlways(fm, c) == ColorSeq(c)
\* if !f.NoColors { fmt.Fprintf(b, "\x1b[%dm", c) }
ColorBytes(fm, c) == IF ~fm.NoColors THEN ColorSeq(c) ELSE <<>>

MessageVerbatim(fm, e) == e.Message
MessageTwice(fm, e) ==
    IF fm.DisableTrimMessages THEN e.Message \o e.Message
    ELSE TrimSpace(e.Message) \o TrimSpace(e.Message)
\* the message as written
MessageBytes(fm, e) ==
    IF fm.DisableTrimMessages THEN e.Message ELSE TrimSpace(e.Message)

CallerAlways(e) ==
    <<SP, 40>> \o e.Caller.File \o <<58>> \o Itoa(e.Caller.Line)
    \o <<SP>> \o e.Caller.Function \o <<41>>
\* writeCaller
CallerBytes(e) ==
    IF HasCaller(e)
    THEN <<SP, 40>> \o e.Caller.File \o <<58>> \o Itoa(e.Caller.Line)
         \o <<SP>> \o e.Caller.Function \o <<41>>
    ELSE <<>>

NoLineEnd == <<>>
\* b.WriteByte('\n')
LineEnd == <<LF>>

SharedBuffer(p) == 1
\* b := &bytes.Buffer{}: the identity of the buffer allocated by call p
NewBuffer(p) == p

Write(p, bytes) == heap' = [heap EXCEPT ![b[p]] = @ \o bytes]

\* Format, lines 33-46
WriteTime(p) ==
    /\ pc[p] = "start"
    /\ levelColor' = [levelColor EXCEPT ![p] = getColorByLevel(entry[p].Level)]
    /\ timestampFormat' = [timestampFormat EXCEPT ![p] = ResolveTimestampFormat(f.TimestampFormat)]
    /\ b' = [b EXCEPT ![p] = NewBuffer(p)]
    /\ heap' = [heap EXCEPT ![NewBuffer(p)] =
                  TimeBytes(entry[p], ResolveTimestampFormat(f.TimestampFormat))]
    /\ pc' = [pc EXCEPT ![p] = "color"]
    /\ UNCHANGED <<f, entry, level, length, foundFieldsMap, fields, idx, ret>>

\* Format, lines 48-53
WriteColor(p) ==
    /\ pc[p] = "color"
    /\ level' = [level EXCEPT ![p] = ToUpper(LevelString(entry[p].Level))]
    /\ Write(p, ColorBytes(f, levelColor[p]))
    /\ pc' = [pc EXCEPT ![p] = "level"]
    /\ UNCHANGED <<f, entry, b, levelColor, timestampFormat, length, foundFieldsMap,
                   fields, idx, ret>>

\* Format, lines 55-65: a slice past the end of level panics
WriteLevel(p) ==
    /\ pc[p] = "level"
    /\ IF LevelInBounds(level[p])
       THEN /\ Write(p, LevelBytes(level[p]))
            /\ pc' = [pc EXCEPT ![p] =
                        IF f.FieldsOrder.isNil THEN "writeFields" ELSE "writeOrderedFields"]
       ELSE /\ pc' = [pc EXCEPT ![p] = "panic"]
            /\ UNCHANGED heap
    /\ UNCHANGED <<f, entry, b, levelColor, timestampFormat, level, length,
                   foundFieldsMap, fields, idx, ret>>

\* writeFields, lines 96-102: collect the keys in range order, then sort
WriteFields(p) ==
    /\ pc[p] = "writeFields"
    /\ \E o \in RangeOrders(DOMAIN entry[p].Data) :
          fields' = [fields EXCEPT ![p] = SortStrings(o)]
    /\ pc' = [pc EXCEPT ![p] = "emit"]
    /\ UNCHANGED <<f, entry, heap, b, levelColor, timestampFormat, level, length,
                   foundFieldsMap, idx, ret>>

\* writeOrderedFields, lines 111-112
WriteOrderedFields(p) ==
    /\ pc[p] = "writeOrderedFields"
    /\ length' = [length EXCEPT ![p] = Cardinality(DOMAIN entry[p].Data)]
    /\ foundFieldsMap' = [foundFieldsMap EXCEPT ![p] = {}]
    /\ idx' = [idx EXCEPT ![p] = 1]
    /\ pc' = [pc EXCEPT ![p] = "orderLoop"]
    /\ UNCHANGED <<f, entry, heap, b, levelColor, timestampFormat, level, fields, ret>>

\* writeOrderedFields, lines 113-119: one iteration over f.FieldsOrder
OrderLoop(p) ==
    /\ pc[p] = "orderLoop"
    /\ idx[p] <= Len(f.FieldsOrder.names)
    /\ LET field == f.FieldsOrder.names[idx[p]] IN
         IF field \in DOMAIN entry[p].Data
         THEN /\ foundFieldsMap' = [foundFieldsMap EXCEPT ![p] = @ \cup {field}]
              /\ length' = [length EXCEPT ![p] = @ - 1]
              /\ Write(p, FieldBytes(f, entry[p], field))
         ELSE UNCHANGED <<foundFieldsMap, length, heap>>
    /\ idx' = [idx EXCEPT ![p] = @ + 1]
    /\ UNCHANGED <<f, entry, pc, b, levelColor, timestampFormat, level, fields, ret>>

\* writeOrderedFields, lines 121-129: the fields not found, sorted
OrderRest(p) ==
    /\ pc[p] = "orderLoop"
    /\ idx[p] > Len(f.FieldsOrder.names)
    /\ IF length[p] > 0
       THEN \E o \in RangeOrders(DOMAIN entry[p].Data) :
               fields' = [fields EXCEPT ![p] =
                  SortStrings(SelectSeq(o, LAMBDA k : k \notin foundFieldsMap[p]))]
       ELSE fields' = [fields EXCEPT ![p] = <<>>]
    /\ pc' = [pc EXCEPT ![p] = "emit"]
    /\ UNCHANGED <<f, entry, heap, b, levelColor, timestampFormat, level, length,
                   foundFieldsMap, idx, ret>>

\* writeFields lines 104-106 and writeOrderedFields lines 131-133: one iteration
EmitField(p) ==
    /\ pc[p] = "emit"
    /\ fields[p] # <<>>
    /\ Write(p, FieldBytes(f, entry[p], Head(fields[p])))
    /\ fields' = [fields EXCEPT ![p] = Tail(@)]
    /\ UNCHANGED <<f, entry, pc, b, levelColor, timestampFormat, level, length,
                   foundFieldsMap, idx, ret>>

\* Format, lines 66-68, once the field loops are over
WriteReset(p) ==
    /\ pc[p] = "emit"
    /\ fields[p] = <<>>
    /\ Write(p, ColorBytes(f, colorNone))
    /\ pc' = [pc EXCEPT ![p] = "message"]
    /\ UNCHANGED <<f, entry, b, levelColor, timestampFormat, level, length,
                   foundFieldsMap, fields, idx, ret>>

\* Format, lines 70-75
WriteMessage(p) ==
    /\ pc[p] = "message"
    /\ Write(p, MessageBytes(f, entry[p]))
    /\ pc' = [pc EXCEPT ![p] = "caller"]
    /\ UNCHANGED <<f, entry, b, levelColor, timestampFormat, level, length,
                   foundFieldsMap, fields, idx, ret>>

\* Format, line 77
WriteCaller(p) ==
    /\ pc[p] = "caller"
    /\ Write(p, CallerBytes(entry[p]))
    /\ pc' = [pc EXCEPT ![p] = "newline"]
    /\ UNCHANGED <<f, entry, b, levelColor, timestampFormat, level, length,
                   foundFieldsMap, fields, idx, ret>>

\* Format, lines 78-80
Return(p) ==
    /\ pc[p] = "newline"
    /\ Write(p, LineEnd)
    /\ ret' = [ret EXCEPT ![p] = [bytes |-> heap[b[p]] \o LineEnd, err |-> Nil]]
    /\ pc' = [pc EXCEPT ![p] = "done"]
    /\ UNCHANGED <<f, entry, b, levelColor, timestampFormat, level, length,
                   foundFieldsMap, fields, idx>>

Next ==
    \E p \in Procs :
        \/ WriteTime(p)
        \/ WriteColor(p)
        \/ WriteLevel(p)
        \/ WriteFields(p)
        \/ WriteOrderedFields(p)
        \/ OrderLoop(p)
        \/ OrderRest(p)
        \/ EmitField(p)
        \/ WriteReset(p)
        \/ WriteMessage(p)
        \/ WriteCaller(p)
        \/ Return(p)

\* ------------------------------------------------------------------ inputs

KeyA == <<97>>
KeyAB == <<97, 98>>
KeyB == <<98>>
Keys == {KeyA, KeyAB, KeyB}

IntValue(n) == [kind |-> "int", i |-> n, s |-> <<>>]
StringValue(str) == [kind |-> "string", i |-> 0, s |-> str]

\* the value each key carries when present: 42, a string holding an ESC byte, "a"
ValueOf(k) ==
    IF k = KeyA THEN IntValue(42)
    ELSE IF k = KeyAB THEN StringValue(<<ESC, 120>>)
    ELSE StringValue(<<97>>)

DataOver(S) == [k \in S |-> ValueOf(k)]
DataMaps == {DataOver(S) : S \in SUBSET Keys}

MsgAlphabet == {97, SP, LF, ESC}
Messages == UNION {[1..n -> MsgAlphabet] : n \in 0..MaxMsgLen}

Orders == {Slice(o) : o \in UNION {[1..n -> Keys] : n \in 0..MaxOrderLen}}

TheTime == [hour |-> 10, min |-> 30, sec |-> 0]
\* the layout "15:04"
HourMinute == <<49, 53, 58, 48, 52>>
\* m.go:10 m
TheCaller == Frame(<<109, 46, 103, 111>>, 10, <<109>>)
\* no caller captured; ReportCaller set but no frame found; caller captured
CallerStates ==
    {[ReportCaller |-> FALSE, Caller |-> NilFrame],
     [ReportCaller |-> TRUE, Caller |-> NilFrame],
     [ReportCaller |-> TRUE, Caller |-> TheCaller]}

Formatters(orders, layouts, hides, nocolors, notrims) ==
    [FieldsOrder : orders, TimestampFormat : layouts, HideKeys : hides,
     NoColors : nocolors, DisableTrimMessages : notrims]

Entries(levels, messages, datas, callers) ==
    {[Time |-> TheTime, Level |-> lv, Message |-> m, Data |-> d,
      ReportCaller |-> c.ReportCaller, Caller |-> c.Caller] :
        lv \in levels, m \in messages, d \in datas, c \in callers}

IdleEntry ==
    [Time |-> TheTime, Level |-> 4, Message |-> <<>>, Data |-> DataOver({}),
     ReportCaller |-> FALSE, Caller |-> NilFrame]

\* the state when the calls in `active` are about to run on formatter fm
InitWith(fm, es, active) ==
    /\ f = fm
    /\ entry = es
    /\ pc = [p \in Procs |-> IF p \in active THEN "start" ELSE "idle"]
    /\ heap = [p \in Procs |-> <<>>]
    /\ b = [p \in Procs |-> p]
    /\ levelColor = [p \in Procs |-> 0]
    /\ timestampFormat = [p \in Procs |-> <<>>]
    /\ level = [p \in Procs |-> <<>>]
    /\ length = [p \in Procs |-> 0]
    /\ foundFieldsMap = [p \in Procs |-> {}]
    /\ fields = [p \in Procs |-> <<>>]
    /\ idx = [p \in Procs |-> 0]
    /\ ret = [p \in Procs |-> [bytes |-> <<>>, err |-> Nil]]

\* one call; every message up to MaxMsgLen bytes
Init ==
    \E fm \in Formatters({NilSlice, Slice(<<KeyB>>)}, {<<>>, HourMinute}, BOOLEAN, BOOLEAN, BOOLEAN) :
    \E e \in Entries({4}, Messages, {DataOver({}), DataOver({KeyA, KeyB}), DataOver({KeyAB})},
                     CallerStates) :
        InitWith(fm, [p \in Procs |-> IF p = 1 THEN e ELSE IdleEntry], {1})

Spec == Init /\ [][Next]_vars

\* one call; every level, both layouts
InitLevels ==
    \E fm \in Formatters({NilSlice, Slice(<<KeyB>>)}, {<<>>, HourMinute}, {FALSE}, BOOLEAN, {FALSE}) :
    \E e \in Entries(0..7, {<<97>>, <<SP, 97, LF>>},
                     {DataOver({}), DataOver({KeyA, KeyB})},
                     {[ReportCaller |-> FALSE, Caller |-> NilFrame],
                      [ReportCaller |-> TRUE, Caller |-> TheCaller]}) :
        InitWith(fm, [p \in Procs |-> IF p = 1 THEN e ELSE IdleEntry], {1})

SpecLevels == InitLevels /\ [][Next]_vars

\* one call; every FieldsOrder up to MaxOrderLen names, every field set
InitFields ==
    \E fm \in Formatters({NilSlice} \cup Orders, {<<>>}, BOOLEAN, BOOLEAN, {FALSE}) :
    \E e \in Entries({4}, {<<97>>}, DataMaps, {[ReportCaller |-> FALSE, Caller |-> NilFrame]}) :
        InitWith(fm, [p \in Procs |-> IF p = 1 THEN e ELSE IdleEntry], {1})

SpecFields == InitFields /\ [][Next]_vars

\* two concurrent calls on the same Formatter
InitConc ==
    \E fm \in Formatters({NilSlice, Slice(<<KeyB>>)}, {<<>>}, {FALSE}, BOOLEAN, {FALSE}) :
    \E es \in [Procs -> Entries({4, 2}, {<<97>>}, {DataOver(Keys), DataOver({KeyB})},
                                {[ReportCaller |-> FALSE, Caller |-> NilFrame],
                                 [ReportCaller |-> TRUE, Caller |-> TheCaller]})] :
        InitWith(fm, es, Procs)

SpecConc == InitConc /\ [][Next]_vars

\* ------------------------------------------------- Format run on its own

RECURSIVE ConcatFields(_, _, _)
\* the bytes of writeField for each name of a slice, in order
ConcatFields(fm, e, names) ==
    IF names = <<>> THEN <<>>
    ELSE FieldBytes(fm, e, Head(names)) \o ConcatFields(fm, e, Tail(names))

RECURSIVE OrderedWalk(_, _, _, _)
\* the loop over f.FieldsOrder: the names written, the keys found, the counter
OrderedWalk(e, names, found, len) ==
    IF names = <<>> THEN [written |-> <<>>, found |-> found, length |-> len]
    ELSE IF Head(names) \in DOMAIN e.Data
        THEN LET r == OrderedWalk(e, Tail(names), found \cup {Head(names)}, len - 1)
             IN  [r EXCEPT !.written = <<Head(names)>> \o @]
        ELSE OrderedWalk(e, Tail(names), found, len)

\* the names writeFields / writeOrderedFields pass to writeField, in order
WrittenFields(fm, e) ==
    LET keys == CHOOSE o \in RangeOrders(DOMAIN e.Data) : TRUE IN
    IF fm.FieldsOrder.isNil THEN SortStrings(keys)
    ELSE LET r == OrderedWalk(e, fm.FieldsOrder.names, {}, Cardinality(DOMAIN e.Data))
         IN  r.written \o
             (IF r.length > 0
                 THEN SortStrings(SelectSeq(keys, LAMBDA k : k \notin r.found))
                 ELSE <<>>)

\* the bytes one call of Format returns when nothing else runs
Render(fm, e) ==
    TimeBytes(e, ResolveTimestampFormat(fm.TimestampFormat))
    \o ColorBytes(fm, getColorByLevel(e.Level))
    \o LevelBytes(ToUpper(LevelString(e.Level)))
    \o ConcatFields(fm, e, WrittenFields(fm, e))
    \o ColorBytes(fm, colorNone)
    \o MessageBytes(fm, e)
    \o CallerBytes(e)
    \o LineEnd

\* ------------------------------------------------------- vocabulary of the claims

Done(p) == pc[p] = "done"
Out(p) == ret[p].bytes

StartsWith(s, pre) == Len(s) >= Len(pre) /\ SubSeq(s, 1, Len(pre)) = pre
EndsWith(s, suf) == Len(s) >= Len(suf) /\ SubSeq(s, Len(s) - Len(suf) + 1, Len(s)) = suf
HasByte(s, c) == \E i \in 1..Len(s) : s[i] = c
\* the offsets at which needle occurs in hay
Occurrences(needle, hay) ==
    {i \in 0..(Len(hay) - Len(needle)) : SubSeq(hay, i + 1, i + Len(needle)) = needle}

\* s is m without its leading and trailing whitespace
IsTrimOf(s, m) ==
    \E i \in 0..Len(m) : \E j \in i..Len(m) :
        /\ s = SubSeq(m, i + 1, j)
        /\ \A k \in 1..i : IsSpace(m[k])
        /\ \A k \in (j + 1)..Len(m) : IsSpace(m[k])
        /\ s # <<>> => ~IsSpace(s[1]) /\ ~IsSpace(s[Len(s)])

\* the message text of the claims: stripped unless DisableTrimMessages
MessageText(fm, e) ==
    IF fm.DisableTrimMessages THEN e.Message
    ELSE CHOOSE s \in {SubSeq(e.Message, i, j) : i \in 1..(Len(e.Message) + 1), j \in 0..Len(e.Message)} :
            IsTrimOf(s, e.Message)

\* " (<file>:<line> <function>)"
CallerSuffix(e) ==
    <<SP, 40>> \o e.Caller.File \o <<58>> \o Itoa(e.Caller.Line) \o <<SP>>
    \o e.Caller.Function \o <<41>>
CallerPresent(e) == e.ReportCaller /\ ~e.Caller.isNil
CallerText(e) == IF CallerPresent(e) THEN CallerSuffix(e) ELSE <<>>

ResetSeq == <<ESC, 91, 48, 109>>
\* what precedes the message: the "] " closing the level tag or the last field,
\* then the reset when colors are on
Lead(fm) == <<93, SP>> \o (IF fm.NoColors THEN <<>> ELSE ResetSeq)

\* the names a FieldsOrder list selects from the record, each once, in list order
RECURSIVE OrderedPresent(_, _, _)
OrderedPresent(names, present, seen) ==
    IF names = <<>> THEN <<>>
    ELSE IF Head(names) \in present /\ Head(names) \notin seen
        THEN <<Head(names)>> \o OrderedPresent(Tail(names), present, seen \cup {Head(names)})
        ELSE OrderedPresent(Tail(names), present, seen)

\* the names in S in lexicographic order
Ascending(S) ==
    CHOOSE o \in RangeOrders(S) : \A i, j \in 1..Cardinality(S) : i < j => StrLess(o[i], o[j])

SeqRange(s) == {s[i] : i \in 1..Len(s)}

\* the order C1 asks for
ClaimedFieldOrder(fm, e) ==
    LET first == OrderedPresent(fm.FieldsOrder.names, DOMAIN e.Data, {})
    IN  first \o Ascending(DOMAIN e.Data \ SeqRange(first))

\* one rendered field, as the spec describes it
RenderedField(fm, e, k) ==
    IF fm.HideKeys THEN <<91>> \o FormatV(e.Data[k]) \o <<93, SP>>
    ELSE <<91>> \o k \o <<58>> \o FormatV(e.Data[k]) \o <<93, SP>>

RECURSIVE RenderedFields(_, _, _)
RenderedFields(fm, e, names) ==
    IF names = <<>> THEN <<>>
    ELSE RenderedField(fm, e, Head(names)) \o RenderedFields(fm, e, Tail(names))

\* the part of a finished line between the level tag and the reset / message
FieldsSegment(p) ==
    LET pre == Len(TimeBytes(entry[p], ResolveTimestampFormat(f.TimestampFormat)))
               + Len(ColorBytes(f, levelColor[p])) + 8
        suf == Len(ColorBytes(f, colorNone)) + Len(MessageBytes(f, entry[p]))
               + Len(CallerBytes(entry[p])) + 1
    IN  SubSeq(Out(p), pre + 1, Len(Out(p)) - suf)

\* ------------------------------------------------------------------ claims

\* C1 (as claimed): with FieldsOrder set, the rendered fields are the listed
\* names present in the record, in list order, then the remaining names in
\* lexicographic order, each field exactly once.
C1_EveryFieldOnce ==
    \A p \in Procs :
        Done(p) /\ ~f.FieldsOrder.isNil =>
            FieldsSegment(p) = RenderedFields(f, entry[p], ClaimedFieldOrder(f, entry[p]))

\* C2 (as claimed): the line ends with exactly one line feed: the last byte
\* is LF and the byte before it is not.
C2_ExactlyOneLF ==
    \A p \in Procs :
        Done(p) => /\ Out(p)[Len(Out(p))] = LF
                   /\ Out(p)[Len(Out(p)) - 1] # LF

\* C2 (amended): the last byte is always LF; the byte before it is LF exactly
\* when DisableTrimMessages is true, no caller suffix is written and the
\* message itself ends with LF.
C2_LastByteLF ==
    \A p \in Procs :
        Done(p) =>
            /\ Len(Out(p)) >= 2
            /\ Out(p)[Len(Out(p))] = LF
            /\ Out(p)[Len(Out(p)) - 1] = LF
                <=> /\ f.DisableTrimMessages
                    /\ ~CallerPresent(entry[p])
                    /\ entry[p].Message # <<>>
                    /\ entry[p].Message[Len(entry[p].Message)] = LF

C2_Witness ==
    \E p \in Procs :
        /\ Done(p)
        /\ ~f.DisableTrimMessages
        /\ ~CallerPresent(entry[p])
        /\ EndsWith(entry[p].Message, <<97, LF>>)

\* whether an input of the call holds an ESC byte
InputHasESC(fm, e) ==
    \/ HasByte(e.Message, ESC)
    \/ HasByte(fm.TimestampFormat, ESC)
    \/ \E k \in DOMAIN e.Data : HasByte(k, ESC) \/ HasByte(FormatV(e.Data[k]), ESC)
    \/ HasByte(e.Caller.File, ESC)
    \/ HasByte(e.Caller.Function, ESC)

\* C3 (as claimed): with NoColors the line holds no ESC byte, whatever the record.
C3_NoEscapeAtAll ==
    \A p \in Procs : Done(p) /\ f.NoColors => ~HasByte(Out(p), ESC)

\* C3 (amended): with NoColors, Format adds no ESC byte of its own: the line
\* holds one only if the message, a field, the layout or the caller holds one,
\* and an ESC of the message is copied to the line.
C3_NoEscapeAdded ==
    \A p \in Procs :
        Done(p) /\ f.NoColors =>
            /\ HasByte(Out(p), ESC) => InputHasESC(f, entry[p])
            /\ HasByte(entry[p].Message, ESC) => HasByte(Out(p), ESC)

C3_Witness ==
    \E p \in Procs :
        /\ Done(p)
        /\ f.NoColors
        /\ ~InputHasESC(f, entry[p])
        /\ entry[p].Data # DataOver({})
        /\ ~HasByte(Out(p), ESC)

\* C4: two calls given equal records return equal bytes, whatever order the
\* map yielded its keys in.
C4_Deterministic ==
    \A p, q \in Procs :
        Done(p) /\ Done(q) /\ entry[p] = entry[q] => ret[p] = ret[q]

C4_Witness ==
    /\ \A p \in Procs : Done(p)
    /\ entry[1] = entry[2]
    /\ entry[1].Data = DataOver(Keys)

\* the level tags of the spec, and the tag of the name "unknown"
ExpectedTag(lv) ==
    CASE lv = 0 -> <<80, 65, 78, 73>>
      [] lv = 1 -> <<70, 65, 84, 65>>
      [] lv = 2 -> <<69, 82, 82, 79>>
      [] lv = 3 -> <<87, 65, 82, 78>>
      [] lv = 4 -> <<73, 78, 70, 79>>
      [] lv = 5 -> <<68, 69, 66, 85>>
      [] lv = 6 -> <<84, 82, 65, 67>>
      [] OTHER -> <<85, 78, 75, 78>>

\* C5: for every level Format returns a nil error, never slices past the end
\* of the level name, and the tag is the first 4 bytes of the uppercased name.
C5_LevelTag ==
    \A p \in Procs :
        /\ pc[p] # "panic"
        /\ pc[p] = "level" => Len(level[p]) >= 4
        /\ Done(p) =>
            /\ ret[p].err = Nil
            /\ StartsWith(Out(p),
                   TimeBytes(entry[p], ResolveTimestampFormat(f.TimestampFormat))
                   \o ColorBytes(f, levelColor[p])
                   \o <<SP, 91>> \o ExpectedTag(entry[p].Level) \o <<93, SP>>)

C5_Witness ==
    \E p \in Procs : Done(p) /\ entry[p].Level = 7 /\ ret[p].err = Nil

\* C6 (as claimed): the line holds exactly one occurrence of the message text.
C6_ExactlyOneOccurrence ==
    \A p \in Procs :
        Done(p) => Cardinality(Occurrences(MessageText(f, entry[p]), Out(p))) = 1

\* where the message starts in a finished line (an offset)
MessageOffset(p) ==
    Len(Out(p)) - 1 - Len(CallerText(entry[p])) - Len(MessageText(f, entry[p]))

\* C6 (amended): Format writes the message text once, right before the caller
\* suffix or the line feed, so the line holds it at least once; it holds it
\* exactly once when the text is not empty, its first byte occurs nowhere
\* before the message and its last byte nowhere after it.
C6_WrittenOnce ==
    \A p \in Procs :
        Done(p) =>
            LET text == MessageText(f, entry[p])
                at == MessageOffset(p)
                before == SubSeq(Out(p), 1, at)
                after == SubSeq(Out(p), at + Len(text) + 1, Len(Out(p)))
            IN  /\ at \in Occurrences(text, Out(p))
                /\ EndsWith(before, Lead(f))
                /\ after = CallerText(entry[p]) \o <<LF>>
                /\ (text # <<>> /\ ~HasByte(before, text[1]) /\ ~HasByte(after, text[Len(text)]))
                    => Occurrences(text, Out(p)) = {at}

C6_Witness ==
    \E p \in Procs :
        /\ Done(p)
        /\ entry[p].Message = <<SP, ESC, 97>>
        /\ f.NoColors
        /\ entry[p].Data = DataOver({})
        /\ Occurrences(MessageText(f, entry[p]), Out(p)) = {MessageOffset(p)}

\* the SGR code of each level, in decimal digits: 37, 33, 31, 36
ExpectedColorDigits(lv) ==
    CASE lv \in {6, 5} -> <<51, 55>>
      [] lv = 3 -> <<51, 51>>
      [] lv \in {2, 1, 0} -> <<51, 49>>
      [] OTHER -> <<51, 54>>

\* C7: with colors on, ESC[<c>m follows the timestamp's "]" and ESC[0m follows
\* the last field and precedes the message; with colors off neither is written.
C7_ColorWrap ==
    \A p \in Procs :
        Done(p) =>
            LET ts == TimeBytes(entry[p], ResolveTimestampFormat(f.TimestampFormat))
                select == <<ESC, 91>> \o ExpectedColorDigits(entry[p].Level) \o <<109>>
                tail == MessageText(f, entry[p]) \o CallerText(entry[p]) \o <<LF>>
            IN  IF ~f.NoColors
                THEN /\ StartsWith(Out(p), ts \o select \o <<SP, 91>>)
                     /\ EndsWith(Out(p), <<93, SP>> \o ResetSeq \o tail)
                     /\ Len(Out(p)) >= Len(ts) + Len(select) + 8 + Len(ResetSeq) + Len(tail)
                ELSE /\ StartsWith(Out(p), ts \o <<SP, 91>>)
                     /\ EndsWith(Out(p), <<93, SP>> \o tail)

C7_Witness ==
    \E p \in Procs :
        /\ Done(p)
        /\ ~f.NoColors
        /\ entry[p].Level = 3
        /\ entry[p].Data # DataOver({})

\* C8: the message segment is the message without its leading and trailing
\* whitespace unless DisableTrimMessages, and then the message byte for byte;
\* a message already trimmed is written as it is under both settings, and
\* trimming twice is trimming once.
C8_MessageSegment ==
    \A p \in Procs :
        Done(p) =>
            LET m == entry[p].Message
                rest == CallerText(entry[p]) \o <<LF>>
            IN  /\ f.DisableTrimMessages => EndsWith(Out(p), Lead(f) \o m \o rest)
                /\ ~f.DisableTrimMessages =>
                      \E i \in 0..Len(m) : \E j \in i..Len(m) :
                          /\ IsTrimOf(SubSeq(m, i + 1, j), m)
                          /\ EndsWith(Out(p), Lead(f) \o SubSeq(m, i + 1, j) \o rest)
                /\ IsTrimOf(m, m) => EndsWith(Out(p), Lead(f) \o m \o rest)
                /\ TrimSpace(TrimSpace(m)) = TrimSpace(m)

C8_Witness ==
    \E p \in Procs :
        /\ Done(p)
        /\ ~f.DisableTrimMessages
        /\ entry[p].Message = <<SP, 97, LF>>
        /\ EndsWith(Out(p), Lead(f) \o <<97>> \o CallerText(entry[p]) \o <<LF>>)

C10_ConcurrentSafe ==
    /\ [](\A p \in Procs : Done(p) => Out(p) = Render(f, entry[p]))
    /\ [](\A p, q \in Procs :
            p # q /\ pc[p] \notin {"idle", "start"} /\ pc[q] \notin {"idle", "start"}
                => b[p] # b[q])
    /\ [][/\ f' = f
          /\ entry' = entry
          /\ \A id \in DOMAIN heap :
                heap'[id] # heap[id] =>
                    \E p \in Procs :
                        /\ pc'[p] # pc[p] \/ idx'[p] # idx[p] \/ fields'[p] # fields[p]
                        /\ b'[p] = id]_vars

C10_Witness ==
    /\ \A p \in Procs : Done(p)
    /\ entry[1] # entry[2]
    /\ Out(1) # Out(2)

====
